---------------------------- MODULE Spec2Model ----------------------------
(***************************************************************************)
(* Model of ndx-serializable (src/src/index.ts, lines 194-386): the        *)
(* conversion of an ndx Index (a Map of documents, a character trie with   *)
(* sibling-linked children and postings, a field metadata array) to the    *)
(* flat SerializableIndex (docIds, docFieldLengths, terms, postings,       *)
(* fields) and back.                                                       *)
(*                                                                         *)
(* Objects that JavaScript shares by reference (number[] arrays,           *)
(* DocumentDetails objects, the FieldDetails[] array) live in `heap' and   *)
(* are named by their position in it, so that "the same object" and "an    *)
(* equal object" are different things.  Trie nodes and postings live in    *)
(* the two arenas `nodes' and `posts' of an index and point at each other  *)
(* with firstChild / next / firstPosting exactly as in the source.         *)
(*                                                                         *)
(* A JavaScript string is the sequence of its UTF-16 code units.           *)
(***************************************************************************)
EXTENDS Integers, Sequences, FiniteSets, TLC

VARIABLES pc, heap, idx, flat, idx2, flat2, step, stale

vars == <<pc, heap, idx, flat, idx2, flat2, step, stale>>

(***************************************************************************)
(* Bounds of the model.                                                    *)
(***************************************************************************)
MaxDocs == 2

MaxTerms == 2

(***************************************************************************)
(* Program constants.                                                      *)
(***************************************************************************)
Null == 0

Undefined == 0 - 1

RootCharCode == 0

NumFields == 2

CodeUnits == 65536

(***************************************************************************)
(* Generic sequence helpers (Array.prototype.reverse, array traversal).    *)
(***************************************************************************)
Reverse(s) == [k \in 1..Len(s) |-> s[Len(s) + 1 - k]]

Range(s) == {s[k] : k \in 1..Len(s)}

(***************************************************************************)
(* String.fromCharCode(...codes): every code is taken modulo 2^16.         *)
(* term.charCodeAt(j): the code unit at 0-based position j.                *)
(***************************************************************************)
fromCharCode(codes) == [k \in 1..Len(codes) |-> codes[k] % CodeUnits]

charCodeAt(term, j) == term[j + 1]

(***************************************************************************)
(* Map<I, DocumentDetails>: a sequence of [key, details] entries in        *)
(* insertion order.  set() of a present key replaces the value in place    *)
(* (the entry keeps its position), of an absent key appends; get() of an   *)
(* absent key is undefined.                                                *)
(***************************************************************************)
MapHas(m, key) == \E k \in 1..Len(m) : m[k].key = key

MapGet(m, key) ==
  IF MapHas(m, key)
    THEN m[CHOOSE k \in 1..Len(m) : m[k].key = key].details
    ELSE Undefined

MapSetOverwrite(m, key, d) ==
  IF MapHas(m, key)
    THEN [k \in 1..Len(m) |-> IF m[k].key = key THEN [key |-> key, details |-> d] ELSE m[k]]
    ELSE Append(m, [key |-> key, details |-> d])

MapSetKeepFirst(m, key, d) ==
  IF MapHas(m, key) THEN m ELSE Append(m, [key |-> key, details |-> d])

MapSet(m, key, d) == MapSetOverwrite(m, key, d)

(***************************************************************************)
(* The trie primitives of the ndx library that index.ts imports and calls. *)
(* A trie `tr' is a record with the arenas nodes and posts.                *)
(* addInvertedIndexChildNode and addInvertedIndexPosting link the new      *)
(* element in FRONT of the existing list (child.next = parent.firstChild;  *)
(* parent.firstChild = child), which is what the reverse() calls of        *)
(* toSerializable compensate for.  The ...Append operators are the         *)
(* variants that link at the END of the list; with them the round trip     *)
(* that the test of the repository asserts does not hold.                  *)
(***************************************************************************)
createInvertedIndexNode(charCode) ==
  [charCode |-> charCode, next |-> Null, firstChild |-> Null, firstPosting |-> Null]

RECURSIVE LastSibling(_, _)
LastSibling(nodes, n) ==
  IF nodes[n].next = Null THEN n ELSE LastSibling(nodes, nodes[n].next)

addInvertedIndexChildNodeAppend(nodes, parent, child) ==
  IF nodes[parent].firstChild # Null
    THEN [nodes EXCEPT ![LastSibling(nodes, nodes[parent].firstChild)].next = child]
    ELSE [nodes EXCEPT ![parent].firstChild = child]

addInvertedIndexChildNode(nodes, parent, child) ==
  LET linked == IF nodes[parent].firstChild # Null
                  THEN [nodes EXCEPT ![child].next = nodes[parent].firstChild]
                  ELSE nodes
  IN  [linked EXCEPT ![parent].firstChild = child]

RECURSIVE FindSibling(_, _, _)
FindSibling(nodes, child, charCode) ==
  IF child = Null THEN Undefined
  ELSE IF nodes[child].charCode = charCode THEN child
  ELSE FindSibling(nodes, nodes[child].next, charCode)

findInvertedIndexChildNodeByCharCode(nodes, node, charCode) ==
  FindSibling(nodes, nodes[node].firstChild, charCode)

RECURSIVE LastPosting(_, _)
LastPosting(posts, p) ==
  IF posts[p].next = Null THEN p ELSE LastPosting(posts, posts[p].next)

addInvertedIndexPostingAppend(tr, node, posting) ==
  LET p == Len(tr.posts) + 1
      posts == Append(tr.posts, posting)
      first == tr.nodes[node].firstPosting
  IN  IF first # Null
        THEN [nodes |-> tr.nodes,
              posts |-> [posts EXCEPT ![LastPosting(posts, first)].next = p]]
        ELSE [nodes |-> [tr.nodes EXCEPT ![node].firstPosting = p], posts |-> posts]

addInvertedIndexPosting(tr, node, posting) ==
  LET p == Len(tr.posts) + 1
      first == tr.nodes[node].firstPosting
      linked == IF first # Null THEN [posting EXCEPT !.next = first] ELSE posting
  IN  [nodes |-> [tr.nodes EXCEPT ![node].firstPosting = p],
       posts |-> Append(tr.posts, linked)]


(***************************************************************************)
(* createInvertedIndexNodes (index.ts 375-386): a fresh chain of nodes for *)
(* term[start..], hung below parent; the result is the trie and the leaf.  *)
(* Root is the arena position of the root node, the first node created.    *)
(***************************************************************************)
Root == 1

RECURSIVE createInvertedIndexNodes(_, _, _, _)
createInvertedIndexNodes(tr, parent, term, start) ==
  IF start < Len(term)
    THEN LET newNode == Len(tr.nodes) + 1
             created == Append(tr.nodes, createInvertedIndexNode(charCodeAt(term, start)))
             nodes   == addInvertedIndexChildNode(created, parent, newNode)
         IN  createInvertedIndexNodes([tr EXCEPT !.nodes = nodes], newNode, term, start + 1)
    ELSE [tr |-> tr, node |-> parent]

(***************************************************************************)
(* The walk of one term, index.ts 335-348 (the loop over j).               *)
(* WalkTermNoLookup is the walk without the child lookup of line 342.      *)
(***************************************************************************)
RECURSIVE WalkTermNoLookup(_, _, _, _)
WalkTermNoLookup(tr, node, term, j) ==
  IF j < Len(term) THEN createInvertedIndexNodes(tr, node, term, j)
  ELSE [tr |-> tr, node |-> node]

RECURSIVE WalkTerm(_, _, _, _)
WalkTerm(tr, node, term, j) ==
  IF j < Len(term)
    THEN IF tr.nodes[node].firstChild = Null
           THEN createInvertedIndexNodes(tr, node, term, j)
           ELSE LET nextNode ==
                      findInvertedIndexChildNodeByCharCode(tr.nodes, node, charCodeAt(term, j))
                IN  IF nextNode = Undefined
                      THEN createInvertedIndexNodes(tr, node, term, j)
                      ELSE WalkTerm(tr, nextNode, term, j + 1)
    ELSE [tr |-> tr, node |-> node]

(***************************************************************************)
(* index.ts 350-360: the postings of one term, attached in listed order.   *)
(* A pair p is <<id, termFrequency>>; documents.get(p[0])! is the map's    *)
(* entry or undefined (the ! is erased at run time).                       *)
(***************************************************************************)
RECURSIVE AttachPostingsBackwards(_, _, _, _, _)
AttachPostingsBackwards(tr, node, documents, ps, j) ==
  IF j < Len(ps)
    THEN LET p == ps[Len(ps) - j]
             posting == [next |-> Null,
                         details |-> MapGet(documents, p[1]),
                         termFrequency |-> p[2]]
         IN  AttachPostingsBackwards(addInvertedIndexPosting(tr, node, posting),
                                     node, documents, ps, j + 1)
    ELSE tr

RECURSIVE AttachPostingsSkipDangling(_, _, _, _, _)
AttachPostingsSkipDangling(tr, node, documents, ps, j) ==
  IF j < Len(ps)
    THEN LET p == ps[j + 1]
             posting == [next |-> Null,
                         details |-> MapGet(documents, p[1]),
                         termFrequency |-> p[2]]
         IN  IF MapHas(documents, p[1])
               THEN AttachPostingsSkipDangling(addInvertedIndexPosting(tr, node, posting),
                                               node, documents, ps, j + 1)
               ELSE AttachPostingsSkipDangling(tr, node, documents, ps, j + 1)
    ELSE tr

RECURSIVE AttachPostings(_, _, _, _, _)
AttachPostings(tr, node, documents, ps, j) ==
  IF j < Len(ps)
    THEN LET p == ps[j + 1]
             posting == [next |-> Null,
                         details |-> MapGet(documents, p[1]),
                         termFrequency |-> p[2]]
         IN  AttachPostings(addInvertedIndexPosting(tr, node, posting),
                            node, documents, ps, j + 1)
    ELSE tr

(***************************************************************************)
(* One iteration of the loop over the terms, index.ts 331-361, on the      *)
(* index ix under construction.  TermNode is the node the iteration ends   *)
(* its walk at (the one that receives the postings).                       *)
(***************************************************************************)
TrieOf(ix) == [nodes |-> ix.nodes, posts |-> ix.posts]

RebuildTerm(ix, term, ps) ==
  LET w  == WalkTerm(TrieOf(ix), Root, term, 0)
      tr == AttachPostings(w.tr, w.node, ix.documents, ps, 0)
  IN  [ix EXCEPT !.nodes = tr.nodes, !.posts = tr.posts]

RECURSIVE RebuildTermsBackwards(_, _, _)
RebuildTermsBackwards(ix, table, i) ==
  IF i < Len(table.terms)
    THEN RebuildTermsBackwards(
           RebuildTerm(ix, table.terms[Len(table.terms) - i],
                       table.postings[Len(table.terms) - i]), table, i + 1)
    ELSE ix

RECURSIVE RebuildTerms(_, _, _)
RebuildTerms(ix, table, i) ==
  IF i < Len(table.terms)
    THEN RebuildTerms(RebuildTerm(ix, table.terms[i + 1], table.postings[i + 1]), table, i + 1)
    ELSE ix

(***************************************************************************)
(* index.ts 322-329: the document map (a fresh DocumentDetails object per  *)
(* position of docIds, holding docFieldLengths[i] itself), the fresh root  *)
(* and the fields array of the table.  The result is the heap after the    *)
(* allocations and the index before the first term.                        *)
(***************************************************************************)
RECURSIVE BuildDocumentsCopy(_, _, _, _)
BuildDocumentsCopy(h, documents, table, i) ==
  IF i < Len(table.docIds)
    THEN LET id   == table.docIds[i + 1]
             copy == Len(h) + 1
             d    == Len(h) + 2
         IN  BuildDocumentsCopy(
               h \o <<h[table.docFieldLengths[i + 1]], [id |-> id, fieldLengths |-> copy]>>,
               MapSet(documents, id, d), table, i + 1)
    ELSE [heap |-> h, documents |-> documents]

RECURSIVE BuildDocuments(_, _, _, _)
BuildDocuments(h, documents, table, i) ==
  IF i < Len(table.docIds)
    THEN LET id == table.docIds[i + 1]
             d  == Len(h) + 1
         IN  BuildDocuments(Append(h, [id |-> id, fieldLengths |-> table.docFieldLengths[i + 1]]),
                            MapSet(documents, id, d), table, i + 1)
    ELSE [heap |-> h, documents |-> documents]

RebuildStart(h, table) ==
  LET b == BuildDocuments(h, <<>>, table, 0)
  IN  [heap |-> b.heap,
       index |-> [documents |-> b.documents,
                  nodes |-> <<createInvertedIndexNode(RootCharCode)>>,
                  posts |-> <<>>,
                  fields |-> table.fields]]

(***************************************************************************)
(* fromSerializable, index.ts 321-364.                                     *)
(***************************************************************************)
fromSerializable(h, table) ==
  LET s == RebuildStart(h, table)
  IN  [heap |-> s.heap, index |-> RebuildTerms(s.index, table, 0)]

(***************************************************************************)
(* flattenInvertedIndex, index.ts 285-313.  `out' is the pair of output    *)
(* arrays [terms, postings] the calls push to.  PostingPairs is the walk   *)
(* of the posting list (298-301) in linked order; reading .id of an        *)
(* undefined details throws a TypeError, recorded as the id TypeError.     *)
(***************************************************************************)
TypeError == 0 - 2

DetailsId(h, d) == IF d = Undefined THEN TypeError ELSE h[d].id

RECURSIVE PostingPairs(_, _, _)
PostingPairs(h, ix, posting) ==
  IF posting = Null THEN <<>>
  ELSE <<<<DetailsId(h, ix.posts[posting].details), ix.posts[posting].termFrequency>>>>
       \o PostingPairs(h, ix, ix.posts[posting].next)

NodePostingsLinked(h, ix, node) == PostingPairs(h, ix, ix.nodes[node].firstPosting)

NodePostings(h, ix, node) == Reverse(PostingPairs(h, ix, ix.nodes[node].firstPosting))

RECURSIVE flattenInvertedIndex(_, _, _, _, _)
RECURSIVE FlattenSiblings(_, _, _, _, _)
flattenInvertedIndexEveryNode(h, ix, node, term, out) ==
  LET term2 == Append(term, ix.nodes[node].charCode)
      out2  == [terms    |-> Append(out.terms, fromCharCode(term2)),
                postings |-> Append(out.postings, NodePostings(h, ix, node))]
      child == ix.nodes[node].firstChild
  IN  IF child # Null THEN FlattenSiblings(h, ix, child, term2, out2) ELSE out2

FlattenFirstChildOnly(h, ix, child, term, out) ==
  flattenInvertedIndex(h, ix, child, term, out)

flattenInvertedIndex(h, ix, node, term, out) ==
  LET term2 == Append(term, ix.nodes[node].charCode)
      out2  == IF ix.nodes[node].firstPosting # Null
                 THEN [terms    |-> Append(out.terms, fromCharCode(term2)),
                       postings |-> Append(out.postings, NodePostings(h, ix, node))]
                 ELSE out
      child == ix.nodes[node].firstChild
  IN  IF child # Null THEN FlattenSiblings(h, ix, child, term2, out2) ELSE out2

FlattenSiblings(h, ix, child, term, out) ==
  LET o == flattenInvertedIndex(h, ix, child, term, out)
  IN  IF ix.nodes[child].next # Null
        THEN FlattenSiblings(h, ix, ix.nodes[child].next, term, o)
        ELSE o

(***************************************************************************)
(* toSerializable, index.ts 253-283.  FlattenTrie is lines 261-274 (the    *)
(* walk from the children of the root and the two reverse() calls).        *)
(* A table carries `threw': the call ended in a TypeError and returned     *)
(* nothing.                                                                *)
(***************************************************************************)
FlattenTrieUnreversed(h, ix) ==
  LET child == ix.nodes[Root].firstChild
      empty == [terms |-> <<>>, postings |-> <<>>]
  IN  IF child # Null THEN FlattenSiblings(h, ix, child, <<>>, empty) ELSE empty

FlattenTrie(h, ix) ==
  LET child == ix.nodes[Root].firstChild
      empty == [terms |-> <<>>, postings |-> <<>>]
  IN  IF child # Null
        THEN LET o == FlattenSiblings(h, ix, child, <<>>, empty)
             IN  [terms |-> Reverse(o.terms), postings |-> Reverse(o.postings)]
        ELSE empty

ThrownTable ==
  [threw |-> TRUE, docIds |-> <<>>, docFieldLengths |-> <<>>, terms |-> <<>>,
   postings |-> <<>>, fields |-> Null]

toSerializable(h, ix) ==
  LET t == FlattenTrie(h, ix)
  IN  IF \E k \in 1..Len(t.postings) : \E q \in 1..Len(t.postings[k]) :
             t.postings[k][q][1] = TypeError
        THEN ThrownTable
        ELSE [threw           |-> FALSE,
              docIds          |-> [k \in 1..Len(ix.documents) |-> h[ix.documents[k].details].id],
              docFieldLengths |-> [k \in 1..Len(ix.documents) |->
                                     h[ix.documents[k].details].fieldLengths],
              terms           |-> t.terms,
              postings        |-> t.postings,
              fields          |-> ix.fields]

(***************************************************************************)
(* Deep structural values (what a deep-equality comparison sees): object   *)
(* identities are replaced by the contents of the objects.                 *)
(***************************************************************************)
DeepDetails(h, d) ==
  IF d = Undefined THEN <<"undefined">>
  ELSE <<"details", h[d].id, h[h[d].fieldLengths]>>

RECURSIVE DeepPosting(_, _, _)
DeepPosting(h, ix, p) ==
  IF p = Null THEN <<>>
  ELSE <<[details       |-> DeepDetails(h, ix.posts[p].details),
          termFrequency |-> h[ix.posts[p].termFrequency]]>>
       \o DeepPosting(h, ix, ix.posts[p].next)

RECURSIVE DeepNode(_, _, _)
DeepNode(h, ix, n) ==
  IF n = Null THEN <<>>
  ELSE <<[charCode     |-> ix.nodes[n].charCode,
          firstChild   |-> DeepNode(h, ix, ix.nodes[n].firstChild),
          firstPosting |-> DeepPosting(h, ix, ix.nodes[n].firstPosting)]>>
       \o DeepNode(h, ix, ix.nodes[n].next)

DeepIndex(h, ix) ==
  [documents |-> [k \in 1..Len(ix.documents) |->
                    <<ix.documents[k].key, DeepDetails(h, ix.documents[k].details)>>],
   root      |-> DeepNode(h, ix, Root),
   fields    |-> h[ix.fields]]

DeepTable(h, t) ==
  [threw           |-> t.threw,
   docIds          |-> t.docIds,
   docFieldLengths |-> [k \in 1..Len(t.docFieldLengths) |-> h[t.docFieldLengths[k]]],
   terms           |-> t.terms,
   postings        |-> [k \in 1..Len(t.postings) |->
                          [q \in 1..Len(t.postings[k]) |->
                             <<t.postings[k][q][1], h[t.postings[k][q][2]]>>]],
   fields          |-> IF t.fields = Null THEN <<>> ELSE h[t.fields]]

(***************************************************************************)
(* The construction API of the ndx library, as the test drives it          *)
(* (createIndex, addDocumentToIndex).  A document is given by the tokens   *)
(* of each of its fields after tokenizer and filter (or by an undefined    *)
(* field value); empty tokens are skipped.  Terms are inserted in the      *)
(* order of their first occurrence, by the same walk as index.ts 335-348,  *)
(* and one posting per term is added with addInvertedIndexPosting.         *)
(***************************************************************************)
createIndex(fieldsOid) ==
  [documents |-> <<>>,
   nodes     |-> <<createInvertedIndexNode(RootCharCode)>>,
   posts     |-> <<>>,
   fields    |-> fieldsOid]

NewFields == [i \in 1..NumFields |-> [sum |-> 0, avg |-> <<0, 1>>]]

FieldTerms(text) ==
  IF text.defined THEN SelectSeq(text.tokens, LAMBDA t : t # <<>>) ELSE <<>>

RECURSIVE AllTerms(_, _)
AllTerms(texts, i) ==
  IF i > Len(texts) THEN <<>> ELSE FieldTerms(texts[i]) \o AllTerms(texts, i + 1)

RECURSIVE DistinctTerms(_, _)
DistinctTerms(ts, seen) ==
  IF ts = <<>> THEN <<>>
  ELSE IF Head(ts) \in seen THEN DistinctTerms(Tail(ts), seen)
  ELSE <<Head(ts)>> \o DistinctTerms(Tail(ts), seen \cup {Head(ts)})

TermCount(term, text) == Len(SelectSeq(FieldTerms(text), LAMBDA t : t = term))

RECURSIVE InsertTerms(_, _, _, _, _)
InsertTerms(ix, terms, k, d, firstCounts) ==
  IF k > Len(terms) THEN ix
  ELSE LET w  == WalkTerm(TrieOf(ix), Root, terms[k], 0)
           tr == addInvertedIndexPosting(w.tr, w.node,
                   [next |-> Null, details |-> d, termFrequency |-> firstCounts + k - 1])
       IN  InsertTerms([ix EXCEPT !.nodes = tr.nodes, !.posts = tr.posts],
                       terms, k + 1, d, firstCounts)

addDocumentToIndex(h, ix, id, texts) ==
  LET fl      == Len(h) + 1
      d       == Len(h) + 2
      terms   == DistinctTerms(AllTerms(texts, 1), {})
      lengths == [i \in 1..NumFields |-> Len(FieldTerms(texts[i]))]
      counts  == [k \in 1..Len(terms) |->
                    [i \in 1..NumFields |-> TermCount(terms[k], texts[i])]]
      size    == Len(ix.documents)
      fields  == [i \in 1..NumFields |->
                    IF texts[i].defined
                      THEN [sum |-> h[ix.fields][i].sum + lengths[i],
                            avg |-> <<h[ix.fields][i].sum + lengths[i], size + 1>>]
                      ELSE h[ix.fields][i]]
      h1      == [h EXCEPT ![ix.fields] = fields]
      h2      == h1 \o <<lengths, [id |-> id, fieldLengths |-> fl]>> \o counts
      ix1     == [ix EXCEPT !.documents = MapSet(ix.documents, id, d)]
  IN  [heap |-> h2, index |-> InsertTerms(ix1, terms, 1, d, Len(h) + 3)]

(***************************************************************************)
(* Inputs of the model.                                                    *)
(***************************************************************************)
A == <<97>>

B == <<98>>

AB == <<97, 98>>

AC == <<97, 99>>

EmptyTerm == <<>>

DocIds == {1, 2}

Texts ==
  { [defined |-> FALSE, tokens |-> <<>>],
    [defined |-> TRUE,  tokens |-> <<AB, A>>],
    [defined |-> TRUE,  tokens |-> <<B, EmptyTerm, AC, B>>] }

NoTable ==
  [threw |-> FALSE, docIds |-> <<>>, docFieldLengths |-> <<>>, terms |-> <<>>,
   postings |-> <<>>, fields |-> Null]

NoIndex == createIndex(Null)

(***************************************************************************)
(* First specification: an index is built through the construction API,    *)
(* converted by toSerializable, rebuilt by fromSerializable and converted  *)
(* again.  The owner of the index may go on adding documents after the     *)
(* conversion (the table is then `stale').  `step' counts the documents    *)
(* added.                                                                  *)
(***************************************************************************)
Init ==
  /\ pc = "live"
  /\ heap = <<NewFields>>
  /\ idx = createIndex(1)
  /\ flat = NoTable
  /\ idx2 = NoIndex
  /\ flat2 = NoTable
  /\ step = 0
  /\ stale = FALSE

AddDocument ==
  /\ pc \in {"live", "flat"}
  /\ step < MaxDocs
  /\ \E id \in DocIds : \E texts \in [1..NumFields -> Texts] :
       LET r == addDocumentToIndex(heap, idx, id, texts)
       IN  /\ heap' = r.heap
           /\ idx' = r.index
  /\ step' = step + 1
  /\ stale' = (pc = "flat")
  /\ UNCHANGED <<pc, flat, idx2, flat2>>

Serialize ==
  /\ pc = "live"
  /\ flat' = toSerializable(heap, idx)
  /\ pc' = "flat"
  /\ UNCHANGED <<heap, idx, idx2, flat2, step, stale>>

Deserialize ==
  /\ pc = "flat"
  /\ LET r == fromSerializable(heap, flat)
     IN  /\ heap' = r.heap
         /\ idx2' = r.index
  /\ pc' = "rebuilt"
  /\ UNCHANGED <<idx, flat, flat2, step, stale>>

Reserialize ==
  /\ pc = "rebuilt"
  /\ flat2' = toSerializable(heap, idx2)
  /\ pc' = "reflat"
  /\ UNCHANGED <<heap, idx, flat, idx2, step, stale>>

Next == AddDocument \/ Serialize \/ Deserialize \/ Reserialize

Spec == Init /\ [][Next]_vars

(***************************************************************************)
(* Second specification: fromSerializable on an arbitrary flat table (any  *)
(* term order, repeated and empty terms, empty posting lists, duplicate    *)
(* and dangling document identifiers), its loop over the terms taken one   *)
(* iteration at a time (`step' iterations done), followed by               *)
(* toSerializable of the index it returns.                                 *)
(***************************************************************************)
TableHeap == << <<1, 0>>, <<0, 2>>, <<1, 1>>, <<2, 0>>, NewFields >>

TableFields == Len(TableHeap)

DocTables ==
  { [docIds |-> <<1, 2>>, docFieldLengths |-> <<1, 2>>],
    [docIds |-> <<1, 1>>, docFieldLengths |-> <<1, 2>>],
    [docIds |-> <<2>>,    docFieldLengths |-> <<2>>] }

TableTerms == {EmptyTerm, A, AB, AC, B}

PostingLists ==
  { <<>>, << <<1, 3>> >>, << <<1, 3>>, <<2, 4>> >>, << <<2, 4>>, <<1, 3>> >> }

Tables ==
  { [threw           |-> FALSE,
     docIds          |-> d.docIds,
     docFieldLengths |-> d.docFieldLengths,
     terms           |-> [k \in 1..n |-> e[k][1]],
     postings        |-> [k \in 1..n |-> e[k][2]],
     fields          |-> TableFields] :
    d \in DocTables, n \in 0..MaxTerms, e \in [1..MaxTerms -> TableTerms \X PostingLists] }

\* two longer tables: a root with postings, an inner node without, a leaf
\* without; and three terms below one node, listed out of trie order
LongTables ==
  { [threw           |-> FALSE,
     docIds          |-> <<1, 2>>,
     docFieldLengths |-> <<1, 2>>,
     terms           |-> <<EmptyTerm, AB, B, AC>>,
     postings        |-> << << <<1, 3>> >>, << <<1, 3>>, <<2, 4>> >>, <<>>, << <<2, 4>> >> >>,
     fields          |-> TableFields],
    [threw           |-> FALSE,
     docIds          |-> <<2, 1>>,
     docFieldLengths |-> <<2, 1>>,
     terms           |-> <<AC, B, A, AB>>,
     postings        |-> << << <<2, 4>>, <<1, 3>> >>, << <<1, 3>> >>, << <<2, 3>> >>,
                            << <<1, 4>>, <<1, 3>> >> >>,
     fields          |-> TableFields] }

InitTable ==
  /\ pc = "table"
  /\ heap = TableHeap
  /\ idx = NoIndex
  /\ flat \in Tables \cup LongTables
  /\ idx2 = NoIndex
  /\ flat2 = NoTable
  /\ step = 0
  /\ stale = FALSE

StartRebuild ==
  /\ pc = "table"
  /\ LET s == RebuildStart(heap, flat)
     IN  /\ heap' = s.heap
         /\ idx2' = s.index
  /\ pc' = "rebuilding"
  /\ UNCHANGED <<idx, flat, flat2, step, stale>>

RebuildStep ==
  /\ pc = "rebuilding"
  /\ step < Len(flat.terms)
  /\ idx2' = RebuildTerm(idx2, flat.terms[step + 1], flat.postings[step + 1])
  /\ step' = step + 1
  /\ UNCHANGED <<pc, heap, idx, flat, flat2, stale>>

FinishRebuild ==
  /\ pc = "rebuilding"
  /\ step = Len(flat.terms)
  /\ pc' = "rebuilt"
  /\ UNCHANGED <<heap, idx, flat, idx2, flat2, step, stale>>

NextTable == StartRebuild \/ RebuildStep \/ FinishRebuild \/ Reserialize

SpecTable == InitTable /\ [][NextTable]_vars

(***************************************************************************)
(* Vocabulary of the properties: the trie read as a tree, independently    *)
(* of the flattener.                                                       *)
(***************************************************************************)
RECURSIVE SiblingChain(_, _)
SiblingChain(ix, c) ==
  IF c = Null THEN <<>> ELSE <<c>> \o SiblingChain(ix, ix.nodes[c].next)

ChildrenOf(ix, n) == SiblingChain(ix, ix.nodes[n].firstChild)

RECURSIVE PostingChain(_, _)
PostingChain(ix, p) ==
  IF p = Null THEN <<>> ELSE <<p>> \o PostingChain(ix, ix.posts[p].next)

PostingsOf(ix, n) == PostingChain(ix, ix.nodes[n].firstPosting)

NonRootNodes(ix) == (1..Len(ix.nodes)) \ {Root}

PostingNodes(ix) == {n \in NonRootNodes(ix) : ix.nodes[n].firstPosting # Null}

ParentOf(ix, n) == CHOOSE q \in 1..Len(ix.nodes) : n \in Range(ChildrenOf(ix, q))

RECURSIVE PathOf(_, _)
PathOf(ix, n) ==
  IF n = Root THEN <<>> ELSE Append(PathOf(ix, ParentOf(ix, n)), ix.nodes[n].charCode)

RECURSIVE PreOrder(_, _)
RECURSIVE PreOrderAll(_, _)
PreOrder(ix, n) == <<n>> \o PreOrderAll(ix, ChildrenOf(ix, n))

PreOrderAll(ix, cs) ==
  IF cs = <<>> THEN <<>> ELSE PreOrder(ix, Head(cs)) \o PreOrderAll(ix, Tail(cs))

\* the posting-carrying nodes below the root, in pre-order
PreOrderPostingNodes(ix) ==
  SelectSeq(PreOrder(ix, Root), LAMBDA n : n \in PostingNodes(ix))

PairOf(h, ix, p) == <<h[ix.posts[p].details].id, ix.posts[p].termFrequency>>

\* the postings of a node in the order they were added: postings are
\* allocated in the arena in the order of the addInvertedIndexPosting calls
RECURSIVE Ascending(_)
Ascending(S) ==
  IF S = {} THEN <<>>
  ELSE LET m == CHOOSE x \in S : \A y \in S : x <= y
       IN  <<m>> \o Ascending(S \ {m})

AddedOrder(ix, n) == Ascending(Range(PostingsOf(ix, n)))

NoDuplicateSiblings(ix) ==
  \A n \in 1..Len(ix.nodes) :
    \A a, b \in 1..Len(ChildrenOf(ix, n)) :
      ix.nodes[ChildrenOf(ix, n)[a]].charCode = ix.nodes[ChildrenOf(ix, n)[b]].charCode
        => a = b

\* the nodes the path `term' leads to from the root
NodesAt(ix, term) == {n \in 1..Len(ix.nodes) : PathOf(ix, n) = term}

\* every posting references the entry of the document map with its id
PostingsReferenceMap(h, ix) ==
  \A p \in 1..Len(ix.posts) :
    /\ ix.posts[p].details # Undefined
    /\ MapGet(ix.documents, h[ix.posts[p].details].id) = ix.posts[p].details

Converted == pc \in {"flat", "rebuilt", "reflat"}

Rebuilt == pc \in {"rebuilt", "reflat"}

(***************************************************************************)
(* C1.  Round trip: for an index built through the construction API whose  *)
(* postings all reference documents of the map, the index rebuilt from its *)
(* flat table is deep-structurally equal to it (documents, trie shape,     *)
(* sibling order, posting order, term frequencies, field metadata).        *)
(***************************************************************************)
RoundTripIdentity ==
  (Rebuilt /\ ~stale /\ PostingsReferenceMap(heap, idx))
    => DeepIndex(heap, idx2) = DeepIndex(heap, idx)

RoundTripWitness ==
  /\ pc = "rebuilt" /\ ~stale /\ PostingsReferenceMap(heap, idx)
  /\ Len(idx.documents) = 2
  /\ \E n \in PostingNodes(idx) : Len(PostingsOf(idx, n)) >= 2
  /\ \E n \in NonRootNodes(idx) : Len(ChildrenOf(idx, n)) >= 2
  /\ DeepIndex(heap, idx2) = DeepIndex(heap, idx)

(***************************************************************************)
(* C2.  Flat-table round trip: converting the rebuilt index again gives a  *)
(* table equal to the first one, field by field and in the same order.     *)
(***************************************************************************)
FlatTableRoundTrip ==
  pc = "reflat" => DeepTable(heap, flat2) = DeepTable(heap, flat)

FlatTableRoundTripWitness ==
  /\ pc = "reflat"
  /\ Len(flat.terms) >= 3
  /\ \E k \in 1..Len(flat.postings) : Len(flat.postings[k]) >= 2
  /\ DeepTable(heap, flat2) = DeepTable(heap, flat)

(***************************************************************************)
(* C4.  Emission order.  As claimed: terms lists the posting-carrying      *)
(* nodes in the order of the pre-order walk (node before children,         *)
(* children in linked sibling order).                                      *)
(***************************************************************************)
PreOrderTerms(ix) ==
  [k \in 1..Len(PreOrderPostingNodes(ix)) |->
     fromCharCode(PathOf(ix, PreOrderPostingNodes(ix)[k]))]

CanonicalEmissionOrder ==
  (pc = "flat" /\ ~stale) => flat.terms = PreOrderTerms(idx)

(***************************************************************************)
(* C4, as the code has it: terms (and postings with it) lists the          *)
(* posting-carrying nodes in the REVERSE of the pre-order walk: terms[0]   *)
(* is the last such node the walk meets, terms[last] the first.            *)
(***************************************************************************)
ReversePreOrderEmission ==
  (pc = "flat" /\ ~stale) =>
    /\ flat.terms = Reverse(PreOrderTerms(idx))
    /\ Len(flat.postings) = Len(flat.terms)
    /\ \A k \in 1..Len(flat.terms) :
         LET n == PreOrderPostingNodes(idx)[Len(flat.terms) + 1 - k]
         IN  Range(flat.postings[k]) = {PairOf(heap, idx, q) : q \in Range(PostingsOf(idx, n))}

ReversePreOrderWitness ==
  /\ pc = "flat" /\ ~stale
  /\ Len(flat.terms) >= 3
  /\ flat.terms = Reverse(PreOrderTerms(idx))
  /\ flat.terms # PreOrderTerms(idx)
  /\ \E n \in NonRootNodes(idx) : Len(ChildrenOf(idx, n)) >= 2

(***************************************************************************)
(* C5.  Posting order: for every node with two or more postings, its       *)
(* entry of postings lists the pairs in the order the postings were added  *)
(* to the node, and the table of the rebuilt index lists them in that      *)
(* same order.                                                             *)
(***************************************************************************)
AddedPairs(h, ix, n) ==
  [q \in 1..Len(AddedOrder(ix, n)) |-> PairOf(h, ix, AddedOrder(ix, n)[q])]

EntryOf(table, term) == {k \in 1..Len(table.terms) : table.terms[k] = term}

PostingOrderPreserved ==
  (Converted /\ ~stale) =>
    \A n \in PostingNodes(idx) :
      Len(PostingsOf(idx, n)) >= 2 =>
        /\ EntryOf(flat, PathOf(idx, n)) # {}
        /\ \A k \in EntryOf(flat, PathOf(idx, n)) :
             flat.postings[k] = AddedPairs(heap, idx, n)
        /\ pc = "reflat" =>
             /\ EntryOf(flat2, PathOf(idx, n)) # {}
             /\ \A k \in EntryOf(flat2, PathOf(idx, n)) :
                  flat2.postings[k] = AddedPairs(heap, idx, n)

PostingOrderWitness ==
  /\ pc = "reflat" /\ ~stale
  /\ \E n \in PostingNodes(idx) :
       /\ Len(PostingsOf(idx, n)) >= 2
       /\ \E k \in EntryOf(flat2, PathOf(idx, n)) :
            /\ flat2.postings[k] = AddedPairs(heap, idx, n)
            /\ flat2.postings[k][1][1] # flat2.postings[k][2][1]

(***************************************************************************)
(* C8.  Aliasing.  As claimed: no array reachable from the flat table is   *)
(* the same object as an array reachable from the source index, and no     *)
(* array reachable from the rebuilt index is the same object as one        *)
(* reachable from the flat table.                                          *)
(***************************************************************************)
TableArrays(table) ==
  Range(table.docFieldLengths)
    \cup UNION {{table.postings[k][q][2] : q \in 1..Len(table.postings[k])} :
                   k \in 1..Len(table.postings)}
    \cup {table.fields}

TermFrequencyArrays(ix) ==
  UNION {{ix.posts[q].termFrequency : q \in Range(PostingsOf(ix, n))} : n \in NonRootNodes(ix)}

FieldLengthArrays(h, ix) ==
  {h[ix.documents[k].details].fieldLengths : k \in 1..Len(ix.documents)}

IndexArrays(h, ix) ==
  FieldLengthArrays(h, ix) \cup TermFrequencyArrays(ix) \cup {ix.fields}

NoAliasing ==
  /\ Converted => TableArrays(flat) \cap IndexArrays(heap, idx) = {}
  /\ Rebuilt => IndexArrays(heap, idx2) \cap TableArrays(flat) = {}

(***************************************************************************)
(* C8, as the code has it: both calls share every inner array.  The table  *)
(* holds the index's own fieldLengths, termFrequency and fields arrays,    *)
(* and the rebuilt index holds the table's; only the DocumentDetails       *)
(* objects (and the outer arrays, nodes and postings) are new.  fields     *)
(* stays shared whatever the owner of the index does next.                 *)
(***************************************************************************)
SharedArrays ==
  /\ Converted => flat.fields = idx.fields
  /\ (Converted /\ ~stale) =>
       /\ Len(flat.docFieldLengths) = Len(idx.documents)
       /\ \A k \in 1..Len(idx.documents) :
            flat.docFieldLengths[k] = heap[idx.documents[k].details].fieldLengths
       /\ TableArrays(flat) = IndexArrays(heap, idx)
  /\ Rebuilt =>
       /\ idx2.fields = flat.fields
       /\ \A k \in 1..Len(idx2.documents) :
            /\ heap[idx2.documents[k].details].fieldLengths = flat.docFieldLengths[k]
            /\ \A j \in 1..Len(idx.documents) :
                 idx2.documents[k].details # idx.documents[j].details
       /\ IndexArrays(heap, idx2) = TableArrays(flat)

\* the table's field metadata has changed in place after the conversion: it
\* counts the tokens of a document the table does not hold
SharedArraysWitness ==
  /\ pc = "rebuilt" /\ stale
  /\ Len(flat.docIds) = 1
  /\ Len(idx2.documents) = 1
  /\ TableArrays(flat) = IndexArrays(heap, idx2)
  /\ heap[flat.fields][1].sum > heap[flat.docFieldLengths[1]][1]

(***************************************************************************)
(* C3.  No spurious terms: terms has exactly one entry for each non-root   *)
(* node that carries a posting (the code units of its path), none for the  *)
(* root or a node without postings; postings is as long as terms and       *)
(* postings[i] holds the postings of the node of terms[i].                 *)
(***************************************************************************)
Occurrences(sq, x) == Cardinality({k \in 1..Len(sq) : sq[k] = x})

SamePairs(h, ix, n, ps) ==
  /\ Len(ps) = Len(PostingsOf(ix, n))
  /\ \A q \in Range(PostingsOf(ix, n)) :
       Occurrences(ps, PairOf(h, ix, q))
         = Cardinality({r \in Range(PostingsOf(ix, n)) : PairOf(h, ix, r) = PairOf(h, ix, q)})

NoSpuriousTerms ==
  (pc = "reflat" /\ ~flat2.threw) =>
    /\ Len(flat2.postings) = Len(flat2.terms)
    /\ Len(flat2.terms) = Cardinality(PostingNodes(idx2))
    /\ \A n \in PostingNodes(idx2) :
         /\ Cardinality(EntryOf(flat2, fromCharCode(PathOf(idx2, n)))) = 1
         /\ \A k \in EntryOf(flat2, fromCharCode(PathOf(idx2, n))) :
              SamePairs(heap, idx2, n, flat2.postings[k])
    /\ \A k \in 1..Len(flat2.terms) :
         \E n \in PostingNodes(idx2) : flat2.terms[k] = fromCharCode(PathOf(idx2, n))

NoSpuriousTermsWitness ==
  /\ pc = "reflat" /\ ~flat2.threw
  /\ idx2.nodes[Root].firstPosting # Null
  /\ \E n \in NonRootNodes(idx2) :
       idx2.nodes[n].firstPosting = Null /\ idx2.nodes[n].firstChild = Null
  /\ \E n \in NonRootNodes(idx2) :
       idx2.nodes[n].firstPosting = Null /\ idx2.nodes[n].firstChild # Null
  /\ Len(flat2.terms) = 2
  /\ Cardinality(NonRootNodes(idx2)) = 4

(***************************************************************************)
(* C6.  Duplicate document identifier.  As claimed: a table whose docIds   *)
(* holds an identifier twice is rejected, fromSerializable returns no      *)
(* index for it.                                                           *)
(***************************************************************************)
HasDuplicateId(table) ==
  \E a, b \in 1..Len(table.docIds) : a # b /\ table.docIds[a] = table.docIds[b]

DuplicateIdRejected == pc = "rebuilt" => ~HasDuplicateId(flat)

(***************************************************************************)
(* C6, as the code has it: fromSerializable never fails on a repeated      *)
(* identifier.  The document map of the index it returns has one entry     *)
(* per distinct identifier, in the order of first occurrence, and the      *)
(* entry holds the field lengths of the LAST occurrence (last wins).       *)
(***************************************************************************)
LastPosition(table, id) ==
  CHOOSE k \in 1..Len(table.docIds) :
    table.docIds[k] = id /\ \A j \in (k + 1)..Len(table.docIds) : table.docIds[j] # id

FirstPositions(table) ==
  {k \in 1..Len(table.docIds) : \A j \in 1..(k - 1) : table.docIds[j] # table.docIds[k]}

DuplicateIdLastWins ==
  pc = "rebuilt" =>
    /\ Len(idx2.documents) = Cardinality(Range(flat.docIds))
    /\ [k \in 1..Len(idx2.documents) |-> idx2.documents[k].key]
         = [k \in 1..Cardinality(FirstPositions(flat)) |->
              flat.docIds[Ascending(FirstPositions(flat))[k]]]
    /\ \A k \in 1..Len(idx2.documents) :
         LET d == heap[idx2.documents[k].details]
         IN  /\ d.id = idx2.documents[k].key
             /\ d.fieldLengths = flat.docFieldLengths[LastPosition(flat, d.id)]

DuplicateIdWitness ==
  /\ pc = "rebuilt"
  /\ flat.docIds = <<1, 1>>
  /\ Len(idx2.documents) = 1
  /\ heap[idx2.documents[1].details].fieldLengths = flat.docFieldLengths[2]
  /\ flat.docFieldLengths[2] # flat.docFieldLengths[1]
  /\ Len(idx2.posts) >= 1

(***************************************************************************)
(* C7.  Dangling posting reference.  As claimed: a table with a pair whose *)
(* identifier is not in docIds is rejected, fromSerializable returns no    *)
(* index for it.                                                           *)
(***************************************************************************)
Dangling(table, k, q) == table.postings[k][q][1] \notin Range(table.docIds)

HasDangling(table) ==
  \E k \in 1..Len(table.postings) : \E q \in 1..Len(table.postings[k]) : Dangling(table, k, q)

DanglingReferenceRejected == pc = "rebuilt" => ~HasDangling(flat)

(***************************************************************************)
(* C7, as the code has it: fromSerializable never fails on a dangling      *)
(* reference.  The index it returns holds, at the node of the term, a      *)
(* posting for that pair whose document entry is undefined; every other    *)
(* posting references an entry of the map.                                 *)
(***************************************************************************)
DanglingReferenceKept ==
  pc = "rebuilt" =>
    /\ \A k \in 1..Len(flat.postings) : \A q \in 1..Len(flat.postings[k]) :
         Dangling(flat, k, q) =>
           \E n \in NodesAt(idx2, flat.terms[k]) : \E r \in Range(PostingsOf(idx2, n)) :
             /\ idx2.posts[r].details = Undefined
             /\ idx2.posts[r].termFrequency = flat.postings[k][q][2]
    /\ Cardinality({r \in 1..Len(idx2.posts) : idx2.posts[r].details = Undefined})
         = Cardinality(UNION {{<<k, q>> : q \in {r \in 1..Len(flat.postings[k]) :
                                                      Dangling(flat, k, r)}} :
                              k \in 1..Len(flat.postings)})

DanglingReferenceWitness ==
  /\ pc = "rebuilt"
  /\ HasDangling(flat)
  /\ \E r \in 1..Len(idx2.posts) : idx2.posts[r].details = Undefined
  /\ \E r \in 1..Len(idx2.posts) : idx2.posts[r].details # Undefined

(***************************************************************************)
(* C9.  The trie under construction stays a trie: for a table of           *)
(* non-empty terms in any order (repeats included), after each iteration   *)
(* of the loop over the terms no node has two children with the same       *)
(* character code, the path of every term handled so far exists, and the   *)
(* path of the term just handled ends at the node that received its        *)
(* postings (they are the most recently linked postings of that node).     *)
(***************************************************************************)
AllTermsNonEmpty(table) == \A k \in 1..Len(table.terms) : table.terms[k] # EmptyTerm

ReceivedPostings(ix, n, ps) ==
  /\ Len(PostingsOf(ix, n)) >= Len(ps)
  /\ \A q \in 1..Len(ps) :
       LET r == ix.posts[PostingsOf(ix, n)[q]]
           p == ps[Len(ps) + 1 - q]
       IN  /\ r.termFrequency = p[2]
           /\ r.details = MapGet(ix.documents, p[1])

TrieStaysWellFormed ==
  (pc \in {"rebuilding", "rebuilt"} /\ step >= 1 /\ AllTermsNonEmpty(flat)) =>
    /\ NoDuplicateSiblings(idx2)
    /\ \A i \in 1..step : Cardinality(NodesAt(idx2, flat.terms[i])) = 1
    /\ \A n \in NodesAt(idx2, flat.terms[step]) :
         ReceivedPostings(idx2, n, flat.postings[step])

TrieStaysWellFormedWitness ==
  /\ pc = "rebuilding" /\ step = 4 /\ AllTermsNonEmpty(flat)
  /\ flat.terms = <<AC, B, A, AB>>
  /\ NoDuplicateSiblings(idx2)
  /\ Cardinality(NonRootNodes(idx2)) = 4
  /\ \A n \in NodesAt(idx2, AB) : ReceivedPostings(idx2, n, flat.postings[4])

(***************************************************************************)
(* C10.  Rebuilding is lossless whatever the order of the terms: for a     *)
(* table of pairwise distinct non-empty terms with non-empty posting       *)
(* lists and neither dangling nor duplicate identifiers, the table of the  *)
(* rebuilt index has the same (term, posting list) associations, each      *)
(* list in the same order, and the same docIds and docFieldLengths; only   *)
(* the positions of the terms may differ.                                  *)
(***************************************************************************)
CleanTable(table) ==
  /\ AllTermsNonEmpty(table)
  /\ \A a, b \in 1..Len(table.terms) : table.terms[a] = table.terms[b] => a = b
  /\ \A k \in 1..Len(table.postings) : table.postings[k] # <<>>
  /\ ~HasDangling(table)
  /\ ~HasDuplicateId(table)

Associations(table) == {<<table.terms[k], table.postings[k]>> : k \in 1..Len(table.terms)}

RebuildLossless ==
  (pc = "reflat" /\ CleanTable(flat)) =>
    /\ ~flat2.threw
    /\ Len(flat2.terms) = Len(flat.terms)
    /\ Len(flat2.postings) = Len(flat.postings)
    /\ Associations(flat2) = Associations(flat)
    /\ flat2.docIds = flat.docIds
    /\ flat2.docFieldLengths = flat.docFieldLengths
    /\ DeepTable(heap, flat2).docFieldLengths = DeepTable(heap, flat).docFieldLengths

RebuildLosslessWitness ==
  /\ pc = "reflat" /\ CleanTable(flat)
  /\ Len(flat.terms) = 4
  /\ flat2.terms # flat.terms
  /\ Associations(flat2) = Associations(flat)
  /\ \E k \in 1..Len(flat.postings) : Len(flat.postings[k]) = 2

=============================================================================
